---- MODULE Spec2Model ----
(***************************************************************************)
(* TimesketchSearchEventCollector (dftimewolf/lib/collectors/timesketch.py) *)
(* as a state machine: SetUp validates its arguments and resolves the       *)
(* sketch, Process builds the search, runs it and stores the result.        *)
(*                                                                          *)
(* Encoding of Python values:                                               *)
(*   - an Optional value is <<>> (None) or <<v>>;                           *)
(*   - a comma-separated argument string is a sequence of tokens: the       *)
(*     separator ",", the blank " ", and words (a word token stands for a   *)
(*     run of ordinary characters, adjacent tokens are concatenated);       *)
(*   - a datetime is [s |-> seconds, f |-> microseconds].                   *)
(***************************************************************************)
EXTENDS Integers, Sequences, FiniteSets, TLC

\* ---------------------------------------------------------------- bounds
MaxSetUps == 1
MaxReuse == 2
MaxProcess == 1
MaxLen == 2

VARIABLES
  self,        \* the module's attributes (__init__, lines 51-62)
  cache,       \* state cache entry 'timesketch_sketch' (AddToCache, line 188)
  containers,  \* containers stored through StoreContainer, in order
  files,       \* temporary files created by NamedTemporaryFile, in order
  call,        \* the most recent SetUp call: arguments, outcome, backend calls
  run,         \* the most recent Process call: query, result table, outcome
  nsetup,      \* number of SetUp calls made
  nproc        \* number of Process calls made

vars == <<self, cache, containers, files, call, run, nsetup, nproc>>

\* ------------------------------------------------------- Python helpers
None == <<>>
Some(v) == <<v>>

\* Truthiness of an Optional[str] whose string is an atom ('' is falsy).
TruthyStr(o) == o # None /\ o[1] # ""

\* Truthiness of an Optional token string (None and the empty string are falsy).
TruthyTokens(o) == o # None /\ o[1] # <<>>

\* Truthiness of an Optional[datetime]: a datetime object is always truthy.
TruthyTime(o) == o # None

\* str.split(','): n separators give n + 1 entries, empty entries included.
RECURSIVE SplitAcc(_, _, _)
SplitAcc(s, cur, acc) ==
  IF s = <<>> THEN Append(acc, cur)
  ELSE IF Head(s) = "," THEN SplitAcc(Tail(s), <<>>, Append(acc, cur))
  ELSE SplitAcc(Tail(s), Append(cur, Head(s)), acc)

Split(s) == SplitAcc(s, <<>>, <<>>)

\* str.strip(): leading and trailing blanks removed.
RECURSIVE LStrip(_)
LStrip(s) == IF s # <<>> /\ Head(s) = " " THEN LStrip(Tail(s)) ELSE s

RECURSIVE RStrip(_)
RStrip(s) ==
  IF s # <<>> /\ s[Len(s)] = " " THEN RStrip(SubSeq(s, 1, Len(s) - 1)) ELSE s

Strip(s) == RStrip(LStrip(s))

\* int(str) on the identifier strings of the model; "abc" and "" have no value.
IntLiterals == {"42", "0", "-5"}
IsIntLiteral(str) == str \in IntLiterals
IntOf(str) == CASE str = "42" -> 42 [] str = "0" -> 0 [] str = "-5" -> 0 - 5

\* int(str) on one entry of the index list: a non-empty run of digit tokens.
Digits == {"1", "2"}
IsIndexLiteral(s) == s # <<>> /\ \A i \in 1..Len(s) : s[i] \in Digits
DigitOf(d) == IF d = "1" THEN 1 ELSE 2
RECURSIVE IndexOf(_)
IndexOf(s) ==
  IF s = <<>> THEN 0
  ELSE 10 * IndexOf(SubSeq(s, 1, Len(s) - 1)) + DigitOf(s[Len(s)])

\* datetime.strftime('%Y-%m-%dT%H:%M:%S.%f'): fixed-width fields, most
\* significant first; the encoded value is the tuple of its fields.
Strftime(t) == <<t.s, t.f>>

\* ------------------------------------------------------------ constants
VALID_OUTPUT_FORMATS == {"csv", "json", "jsonl", "pandas"}

INTERNAL_COLUMNS == {"__ts_timeline_id", "_id", "_index", "_source", "_type"}

\* ----------------------------------------------------------------- SetUp
\* The ways SetUp (or Process) can end.
Ok == "ok"
ModuleErrorCritical == "ModuleError"
ValueError == "ValueError"

\* Lines 108-116: the sketch identifier the call leaves in self.sketch_id.
\* attribute_id is what GetSketchIDFromAttributes returns (0 when not found).
ResolveSketchId(sketch_id, attribute_id) ==
  IF ~TruthyStr(sketch_id) THEN attribute_id ELSE IntOf(sketch_id[1])

\* A datetime check that enforces both-or-neither.
DatetimesAcceptedTogether(start_datetime, end_datetime) ==
  TruthyTime(start_datetime) = TruthyTime(end_datetime)

\* A datetime check that rejects only a call that supplies neither timestamp.
DatetimesAcceptedEither(start_datetime, end_datetime) ==
  TruthyTime(start_datetime) \/ TruthyTime(end_datetime)

\* Line 118: the condition under which SetUp goes on past the datetime check.
DatetimesAccepted(start_datetime, end_datetime) ==
  ~(~TruthyTime(start_datetime) \/ ~TruthyTime(end_datetime))

\* A format check against the enumeration with 'table' added to it.
OutputFormatAcceptedTable(output_format) ==
  output_format \in {"csv", "json", "jsonl", "pandas", "table"}

\* Line 122: the condition under which SetUp goes on past the format check.
OutputFormatAccepted(output_format) == output_format \in VALID_OUTPUT_FORMATS

\* Lines 169-175: which client constructor _GetSketch calls.
ApiClientCall(a) ==
  IF a.endpoint /\ a.username /\ a.password THEN "client.TimesketchApi"
  ELSE IF a.token_password THEN "GetApiClient(token_password)"
  ELSE "GetApiClient"

\* Lines 169-189, _GetSketch. e.api is what the client constructor yields
\* ("none": no client, "no_session": a client without session, "ok"),
\* e.sketch whether get_sketch returns a sketch for the identifier.
GetSketch(s, c, a, e) ==
  LET c1 == <<ApiClientCall(a)>>
      c2 == Append(c1, "get_sketch")
      obj == [id |-> s.sketch_id]
  IN IF e.api = "none"
       THEN [result |-> ModuleErrorCritical, message |-> "Unable to get a Timesketch API client",
             calls |-> c1, sketch |-> None, cache |-> c]
     ELSE IF e.api = "no_session"
       THEN [result |-> ModuleErrorCritical, message |-> "Could not connect to Timesketch server.",
             calls |-> c1, sketch |-> None, cache |-> c]
     ELSE IF e.sketch # "found"
       THEN [result |-> ModuleErrorCritical, message |-> "Could not get sketch",
             calls |-> c2, sketch |-> None, cache |-> c]
     ELSE [result |-> Ok, message |-> "",
           calls |-> Append(c2, "AddToCache"), sketch |-> Some(obj), cache |-> Some(obj)]

\* A label list that keeps the blanks around each entry.
ParseLabelsUnstripped(str) == Split(str)

\* Line 136: the stored label list of a (truthy) labels argument.
ParseLabels(str) == [i \in 1..Len(Split(str)) |-> Strip(Split(str)[i])]

\* Line 139: the stored index list of a (truthy) indices argument.
IndicesParse(str) == \A i \in 1..Len(Split(str)) : IsIndexLiteral(Split(str)[i])
ParseIndices(str) == [i \in 1..Len(Split(str)) |-> IndexOf(Split(str)[i])]

\* Lines 127-136: the assignments made once _GetSketch has returned.
StoreArguments(s, sk, a) ==
  LET s1 == [s EXCEPT !.sketch = sk,
                      !.start_datetime = a.start_datetime,
                      !.end_datetime = a.end_datetime,
                      !.query_string = a.query_string,
                      !.return_fields = a.return_fields,
                      !.output_format = a.output_format,
                      !.include_internal_columns = a.include_internal_columns]
  IN IF TruthyTokens(a.labels)
       THEN [s1 EXCEPT !.labels = ParseLabels(a.labels[1])]
       ELSE s1

\* Lines 141-145: the optional search name and description.
StoreNames(s, a) ==
  LET s1 == IF TruthyStr(a.search_name)
              THEN [s EXCEPT !.search_name = a.search_name[1]] ELSE s
  IN IF TruthyStr(a.search_description)
       THEN [s1 EXCEPT !.search_description = a.search_description[1]] ELSE s1

\* Lines 108-145: the whole of SetUp on attributes s and cache c, with
\* arguments a in environment e.  A critical ModuleError raises, so the
\* statements after it are not executed.
SetUpOutcome(s, c, a, e) ==
  LET Fail(s0, kind, msg, calls) ==
        [self |-> s0, cache |-> c, result |-> kind, message |-> msg, calls |-> calls]
  IN
  IF TruthyStr(a.sketch_id) /\ ~IsIntLiteral(a.sketch_id[1])
    THEN Fail(s, ValueError, "invalid literal for int()", <<>>)
  ELSE
  LET s1 == [s EXCEPT !.sketch_id = ResolveSketchId(a.sketch_id, e.attribute_id)]
  IN
  IF ~TruthyStr(a.sketch_id) /\ s1.sketch_id = 0
    THEN Fail(s1, ModuleErrorCritical,
              "Sketch ID is not set and not found in ticket attributes.", <<>>)
  ELSE IF ~DatetimesAccepted(a.start_datetime, a.end_datetime)
    THEN Fail(s1, ModuleErrorCritical,
              "Both the start and end datetime must be set.", <<>>)
  ELSE IF ~OutputFormatAccepted(a.output_format)
    THEN Fail(s1, ModuleErrorCritical, "Output format not one of", <<>>)
  ELSE
  LET g == GetSketch(s1, c, a, e)
  IN
  IF g.result # Ok
    THEN [self |-> s1, cache |-> g.cache, result |-> g.result,
          message |-> g.message, calls |-> g.calls]
  ELSE
  LET s2 == StoreArguments(s1, g.sketch, a)
  IN
  IF TruthyTokens(a.indices) /\ ~IndicesParse(a.indices[1])
    THEN [self |-> s2, cache |-> g.cache, result |-> ValueError,
          message |-> "invalid literal for int()", calls |-> g.calls]
  ELSE
  LET s3 == IF TruthyTokens(a.indices)
              THEN [s2 EXCEPT !.indices = ParseIndices(a.indices[1])] ELSE s2
  IN [self |-> StoreNames(s3, a), cache |-> g.cache, result |-> Ok,
      message |-> "", calls |-> g.calls]

\* --------------------------------------------------------------- Process
\* search.DateRangeChip with add_start_time / add_end_time (lines 204-208).
DateRangeChip(start_datetime, end_datetime) ==
  [type |-> "datetime_range", builtin |-> "", label |-> <<>>,
   start |-> Strftime(start_datetime), end |-> Strftime(end_datetime)]

\* search.LabelChip for one stored label (lines 212-218).
LabelChip(label) ==
  IF label = <<"star">>
    THEN [type |-> "label", builtin |-> "star", label |-> <<>>, start |-> <<>>, end |-> <<>>]
  ELSE IF label = <<"comment">>
    THEN [type |-> "label", builtin |-> "comment", label |-> <<>>, start |-> <<>>, end |-> <<>>]
  ELSE [type |-> "label", builtin |-> "", label |-> label, start |-> <<>>, end |-> <<>>]

\* Lines 203-209: the chips added for the time range.
RangeChips(s) ==
  IF TruthyTime(s.start_datetime) /\ TruthyTime(s.end_datetime)
    THEN <<DateRangeChip(s.start_datetime[1], s.end_datetime[1])>>
    ELSE <<>>

\* Lines 211-219: one chip per stored label, in order.
LabelChips(s) == [i \in 1..Len(s.labels) |-> LabelChip(s.labels[i])]

\* Lines 197-219: the search object handed to to_pandas().  A Search that
\* was given no indices keeps the client's default scope.
DefaultIndices == <<"_all">>
BuildSearch(s) ==
  [sketch |-> s.sketch,
   query_string |-> s.query_string,
   return_fields |-> s.return_fields,
   indices |-> IF s.indices # <<>> THEN s.indices ELSE DefaultIndices,
   chips |-> RangeChips(s) \o LabelChips(s)]

\* An emptiness test that only a missing table passes.
EmptyNever(data_frame) == FALSE

\* A result table: its set of columns and its number of rows.
\* DataFrame.empty (line 264): true when either axis has length 0.
Empty(data_frame) == data_frame.rows = 0 \/ data_frame.columns = {}

\* A drop that raises on a missing column whatever errors says.
DropStrict(data_frame, names, errors) ==
  IF ~(names \subseteq data_frame.columns)
    THEN [result |-> "KeyError", data_frame |-> data_frame]
    ELSE [result |-> Ok,
          data_frame |-> [data_frame EXCEPT !.columns = data_frame.columns \ names]]

\* DataFrame.drop(columns=names, errors=...): with errors="raise" a missing
\* column is a KeyError, with errors="ignore" it is skipped.
Drop(data_frame, names, errors) ==
  IF errors = "raise" /\ ~(names \subseteq data_frame.columns)
    THEN [result |-> "KeyError", data_frame |-> data_frame]
    ELSE [result |-> Ok,
          data_frame |-> [data_frame EXCEPT !.columns = data_frame.columns \ names]]

\* Lines 228-232: the table that is output.
Shape(s, data_frame) ==
  IF ~s.include_internal_columns
    THEN Drop(data_frame, INTERNAL_COLUMNS, "ignore")
    ELSE [result |-> Ok, data_frame |-> data_frame]

\* tempfile.NamedTemporaryFile(delete=..., prefix=..., suffix=...) once its
\* with-block is left: path is unique among the files created so far, and the
\* file goes away on close when delete is set.
NamedTemporaryFile(nfiles, prefix, suffix, delete, content) ==
  [path |-> nfiles + 1, prefix |-> prefix, suffix |-> suffix,
   exists |-> ~delete, content |-> content]

\* The delete argument NamedTemporaryFile has by default.
TempFileDeleteDefault == TRUE

\* Line 243: the delete argument the collector passes.
TempFileDelete == FALSE

\* Lines 247-254: what is written to the file for a format ("" when the
\* format is none of the three and ModuleError is raised instead).
Serialize(output_format, data_frame) ==
  IF output_format = "csv"
    THEN [writer |-> "to_csv", header |-> TRUE, index |-> FALSE, lines |-> FALSE,
          data_frame |-> data_frame]
  ELSE IF output_format = "json"
    THEN [writer |-> "to_json", header |-> FALSE, index |-> FALSE, lines |-> FALSE,
          data_frame |-> data_frame]
  ELSE IF output_format = "jsonl"
    THEN [writer |-> "to_json", header |-> FALSE, index |-> FALSE, lines |-> TRUE,
          data_frame |-> data_frame]
  ELSE [writer |-> "", header |-> FALSE, index |-> FALSE, lines |-> FALSE,
        data_frame |-> [columns |-> {}, rows |-> 0]]

\* Lines 234-258: what _OutputSearchResults stores for a shaped table, given
\* the number of temporary files that exist already.
Emit(s, shaped, nfiles) ==
  IF s.output_format = "pandas"
    THEN [result |-> Ok, files |-> <<>>,
          containers |-> <<[type |-> "DataFrame", name |-> s.search_name,
                            description |-> s.search_description,
                            data_frame |-> Some(shaped), path |-> 0]>>]
  ELSE
  LET f == NamedTemporaryFile(
             nfiles,
             IF s.search_name # "" THEN <<s.search_name, "_">> ELSE <<>>,
             <<".", s.output_format>>,
             TempFileDelete,
             Serialize(s.output_format, shaped))
  IN IF s.output_format \in {"csv", "json", "jsonl"}
       THEN [result |-> Ok, files |-> <<f>>,
             containers |-> <<[type |-> "File", name |-> s.search_name,
                               description |-> s.search_description,
                               data_frame |-> None, path |-> f.path]>>]
       ELSE [result |-> ModuleErrorCritical, files |-> <<f>>, containers |-> <<>>]

\* Lines 222-258, _OutputSearchResults.
OutputSearchResults(s, data_frame, nfiles) ==
  LET sh == Shape(s, data_frame)
  IN IF sh.result # Ok
       THEN [result |-> sh.result, files |-> <<>>, containers |-> <<>>]
       ELSE Emit(s, sh.data_frame, nfiles)

\* Lines 260-266, Process, on the reply r of to_pandas(): r.raises when the
\* backend call fails, r.data_frame the table otherwise.
ProcessOutcome(s, r, nfiles) ==
  IF r.raises
    THEN [result |-> "BackendError", files |-> <<>>, containers |-> <<>>,
          data_frame |-> None]
  ELSE IF Empty(r.data_frame)
    THEN [result |-> Ok, files |-> <<>>, containers |-> <<>>,
          data_frame |-> Some(r.data_frame)]
  ELSE LET o == OutputSearchResults(s, r.data_frame, nfiles)
       IN [result |-> o.result, files |-> o.files, containers |-> o.containers,
           data_frame |-> Some(r.data_frame)]

\* ------------------------------------------------------------ the machine
\* The defaults of SetUp's parameters (lines 67-81); a credential argument is
\* TRUE when a non-empty value is supplied.
T1 == [s |-> 0, f |-> 1]
T2 == [s |-> 1, f |-> 0]

DefaultArgs ==
  [sketch_id |-> None, query_string |-> "*", start_datetime |-> None,
   end_datetime |-> None, indices |-> None, labels |-> None,
   output_format |-> "pandas", return_fields |-> "*", search_name |-> None,
   search_description |-> None, include_internal_columns |-> FALSE,
   token_password |-> FALSE, endpoint |-> FALSE, username |-> FALSE,
   password |-> FALSE]

DefaultEnv == [attribute_id |-> 0, api |-> "ok", sketch |-> "found"]

\* What a SetUp call saw of its environment: the parts it did not consult are
\* recorded as not consulted (-1, "n/a").
Observed(a, e, calls) ==
  [attribute_id |-> IF ~TruthyStr(a.sketch_id) THEN e.attribute_id ELSE 0 - 1,
   api |-> IF calls # <<>> THEN e.api ELSE "n/a",
   sketch |-> IF \E i \in 1..Len(calls) : calls[i] = "get_sketch"
                THEN e.sketch ELSE "n/a"]

NoCall == [args |-> DefaultArgs, env |-> DefaultEnv, result |-> "none",
           message |-> "", calls |-> <<>>, before |-> None]

NoRun == [result |-> "none", query |-> None, data_frame |-> None,
          containers0 |-> 0, files0 |-> 0]

\* Lines 51-62, __init__.
Init ==
  /\ self = [query_string |-> "", start_datetime |-> None, end_datetime |-> None,
             indices |-> <<>>, labels |-> <<>>, output_format |-> "",
             return_fields |-> "", search_name |-> "", search_description |-> "",
             include_internal_columns |-> FALSE, sketch_id |-> 0, sketch |-> None]
  /\ cache = None
  /\ containers = <<>>
  /\ files = <<>>
  /\ call = NoCall
  /\ run = NoRun
  /\ nsetup = 0
  /\ nproc = 0

\* One SetUp call with arguments a in environment e, on an instance that has
\* seen fewer than limit SetUp calls.
SetUp(a, e, limit) ==
  /\ nsetup < limit
  /\ LET o == SetUpOutcome(self, cache, a, e)
     IN /\ self' = o.self
        /\ cache' = o.cache
        /\ call' = [args |-> a, env |-> Observed(a, e, o.calls), result |-> o.result,
                    message |-> o.message, calls |-> o.calls,
                    before |-> Some([sketch |-> self.sketch, cache |-> cache])]
  /\ run' = NoRun
  /\ nsetup' = nsetup + 1
  /\ UNCHANGED <<containers, files, nproc>>

\* One Process call, which the framework makes only after SetUp returned.
Process(r) ==
  /\ call.result = Ok
  /\ nproc < MaxProcess
  /\ LET o == ProcessOutcome(self, r, Len(files))
     IN /\ containers' = containers \o o.containers
        /\ files' = files \o o.files
        /\ run' = [result |-> o.result, query |-> Some(BuildSearch(self)),
                   data_frame |-> o.data_frame,
                   containers0 |-> Len(containers), files0 |-> Len(files)]
        /\ call' = [call EXCEPT !.calls = Append(call.calls, "to_pandas")]
  /\ nproc' = nproc + 1
  /\ UNCHANGED <<self, cache, nsetup>>

\* ----------------------------------------------------------- input sets
Times == {T1, T2}
OptTimes == {None} \cup {Some(t) : t \in Times}
Envs == [attribute_id : {0, 7}, api : {"none", "no_session", "ok"},
         sketch : {"found", "missing"}]
GoodEnv == [attribute_id |-> 7, api |-> "ok", sketch |-> "found"]

\* Argument strings of at most n tokens over an alphabet.
RECURSIVE Strings(_, _)
Strings(alphabet, n) ==
  IF n = 0 THEN {<<>>}
  ELSE LET shorter == Strings(alphabet, n - 1)
       IN shorter \cup {Append(s, c) : s \in {x \in shorter : Len(x) = n - 1},
                                       c \in alphabet}

Frame(columns, rows) == [columns |-> columns, rows |-> rows]
Reply(data_frame) == [raises |-> FALSE, data_frame |-> data_frame]
BackendFailure == [raises |-> TRUE, data_frame |-> Frame({}, 0)]

\* Validation and sketch resolution: identifiers, timestamps, formats and
\* backend replies vary.
ValidationArgs ==
  {[DefaultArgs EXCEPT !.sketch_id = i, !.start_datetime = st, !.end_datetime = en,
                       !.output_format = fmt] :
     i \in {None, Some("42"), Some("0"), Some("-5"), Some("abc")},
     st \in OptTimes, en \in OptTimes,
     fmt \in {"pandas", "csv", "xml", "table"}}

ValidationReplies ==
  {BackendFailure, Reply(Frame({}, 0)), Reply(Frame({"_id", "message"}, 2))}

Next ==
  \/ \E a \in ValidationArgs, e \in Envs : SetUp(a, e, MaxSetUps)
  \/ \E r \in ValidationReplies : Process(r)

Spec == Init /\ [][Next]_vars

\* Output routing: formats, search names, credentials and result tables vary.
\* A table with rows always has columns: to_pandas() adds _id, _index and
\* _type to every event.
OutputArgs ==
  {[DefaultArgs EXCEPT !.sketch_id = Some("42"), !.start_datetime = Some(T1),
                       !.end_datetime = Some(T2), !.output_format = fmt,
                       !.search_name = n, !.search_description = n,
                       !.endpoint = c[1], !.username = c[1],
                       !.password = c[1], !.token_password = c[2]] :
     fmt \in VALID_OUTPUT_FORMATS, n \in {None, Some("evts")},
     c \in {<<TRUE, FALSE>>, <<FALSE, TRUE>>, <<FALSE, FALSE>>}}

OutputReplies ==
  {BackendFailure, Reply(Frame({}, 0)), Reply(Frame({"_id", "message"}, 0)),
   Reply(Frame({"_id", "message"}, 1)), Reply(Frame({"_id", "_index", "message"}, 2))}

NextOutput ==
  \/ \E a \in OutputArgs : SetUp(a, GoodEnv, MaxSetUps)
  \/ \E r \in OutputReplies : Process(r)

SpecOutput == Init /\ [][NextOutput]_vars

\* Column shaping: every subset of the internal columns, with and without
\* internal-column inclusion.
ColumnArgs ==
  {[DefaultArgs EXCEPT !.sketch_id = Some("42"), !.start_datetime = Some(T1),
                       !.end_datetime = Some(T2), !.output_format = fmt,
                       !.include_internal_columns = inc] :
     fmt \in {"pandas", "csv"}, inc \in BOOLEAN}

ColumnReplies ==
  {Reply(Frame({}, 0))}
    \cup {Reply(Frame(x \cup u, 1)) :
            x \in SUBSET INTERNAL_COLUMNS, u \in {{"message"}, {"message", "tag"}}}

NextColumns ==
  \/ \E a \in ColumnArgs : SetUp(a, GoodEnv, MaxSetUps)
  \/ \E r \in ColumnReplies : Process(r)

SpecColumns == Init /\ [][NextColumns]_vars

\* Label lists: every label argument of at most MaxLen tokens, and some
\* longer ones.
LabelTokens == {",", " ", "star", "comment", "x"}

LongLabelStrings ==
  {<<" ", "star", " ">>,
   <<"x", ",", " ", "comment">>,
   <<"star", "x", ",", "x", " ", "x", ",", "comment">>,
   <<" ", "star", ",", ",", "comment", " ">>}

LabelArgs ==
  {[DefaultArgs EXCEPT !.sketch_id = Some("42"), !.start_datetime = Some(T1),
                       !.end_datetime = Some(T2), !.labels = l] :
     l \in {None} \cup {Some(s) : s \in Strings(LabelTokens, MaxLen) \cup LongLabelStrings}}

LabelReplies == {Reply(Frame({}, 0)), Reply(Frame({"_id", "message"}, 1))}

NextLabels ==
  \/ \E a \in LabelArgs : SetUp(a, GoodEnv, MaxSetUps)
  \/ \E r \in LabelReplies : Process(r)

SpecLabels == Init /\ [][NextLabels]_vars

\* Reuse of one instance: up to MaxReuse SetUp calls whose optional
\* arguments are sometimes supplied and sometimes not.
ReuseArgs ==
  {[DefaultArgs EXCEPT !.sketch_id = Some("42"), !.start_datetime = Some(T1),
                       !.end_datetime = Some(T2), !.labels = l, !.indices = ix,
                       !.search_name = n, !.search_description = d] :
     l \in {None, Some(<<"star">>), Some(<<"x", ",", "comment">>)},
     ix \in {None, Some(<<"1", "2", ",", "2">>), Some(<<"1", ",">>)},
     n \in {None, Some("evts")},
     d \in {None, Some("found events")}}

ReuseEnvs == {e \in Envs : e.attribute_id = 7 /\ e.api = "ok"}

NextReuse ==
  \/ \E a \in ReuseArgs, e \in ReuseEnvs : SetUp(a, e, MaxReuse)
  \/ \E r \in LabelReplies : Process(r)

SpecReuse == Init /\ [][NextReuse]_vars

\* ================================================================ claims
Called == call.result # "none"
BothAbsent(a) == a.start_datetime = None /\ a.end_datetime = None
OnlyOneTimestamp(a) == (a.start_datetime = None) # (a.end_datetime = None)
Unchanged(c) == self.sketch = c.before[1].sketch /\ cache = c.before[1].cache

\* The identifier argument, when supplied, reads as an integer.
IdentifierReadable(a) ==
  a.sketch_id = None \/ a.sketch_id[1] \in {"", "42", "0", "-5"}

\* The identifier is supplied as a positive integer, or found upstream.
IdentifierValid(c) ==
  IF c.args.sketch_id = None \/ c.args.sketch_id[1] = ""
    THEN c.env.attribute_id > 0
    ELSE c.args.sketch_id[1] = "42"

\* The backend refused nothing the call asked of it.
BackendWilling(c) ==
  c.env.api \in {"ok", "n/a"} /\ c.env.sketch \in {"found", "n/a"}

\* Order of two encoded timestamps (fixed width: lexicographic).
EncodedLeq(x, y) == x[1] < y[1] \/ (x[1] = y[1] /\ x[2] <= y[2])

RangeChipsOf(q) == {i \in 1..Len(q.chips) : q.chips[i].type = "datetime_range"}

\* C1: a SetUp call that supplies exactly one of start_datetime and
\* end_datetime ends in an error (the critical ModuleError whenever the
\* identifier argument reads as an integer), and in that run nothing is asked
\* of the backend, no sketch is stored or cached, and no query is built.
C1_OneTimestampRejected ==
  (Called /\ OnlyOneTimestamp(call.args)) =>
    /\ call.result \in {ModuleErrorCritical, ValueError}
    /\ IdentifierReadable(call.args) => call.result = ModuleErrorCritical
    /\ call.calls = <<>>
    /\ Unchanged(call)
    /\ run.query = None

C1_Witness ==
  /\ Called /\ OnlyOneTimestamp(call.args)
  /\ call.args.start_datetime # None
  /\ call.args.output_format \in VALID_OUTPUT_FORMATS
  /\ call.message = "Both the start and end datetime must be set."

C3_BadFormatRejectedFirst ==
  (Called /\ call.args.output_format \notin {"csv", "json", "jsonl", "pandas"}) =>
    /\ call.result \in {ModuleErrorCritical, ValueError}
    /\ IdentifierReadable(call.args) => call.result = ModuleErrorCritical
    /\ call.calls = <<>>
    /\ Unchanged(call)
    /\ run.query = None

C3_Witness ==
  /\ Called /\ call.args.output_format = "table"
  /\ call.args.start_datetime # None /\ call.args.end_datetime # None
  /\ call.message = "Output format not one of"
  /\ call.calls = <<>>

\* C6 (as claimed): a query built after a SetUp with both timestamps carries
\* exactly one time-range restriction, whose encoded start is no later than
\* its encoded end.
C6_RangeOrdered ==
  (run.query # None /\ call.args.start_datetime # None
     /\ call.args.end_datetime # None) =>
    /\ Cardinality(RangeChipsOf(run.query[1])) = 1
    /\ \A i \in RangeChipsOf(run.query[1]) :
         EncodedLeq(run.query[1].chips[i].start, run.query[1].chips[i].end)

\* C9 (as claimed): SetUp stores a sketch handle or ends in the critical
\* ModuleError; it ends in that error, storing and caching nothing, whenever
\* the identifier is missing or not a positive integer, no client or session
\* is available, or the backend has no sketch for the identifier.
C9_ResolveOrFail ==
  Called =>
    /\ call.result = Ok => self.sketch # None
    /\ (\/ ~IdentifierValid(call)
        \/ call.env.api \in {"none", "no_session"}
        \/ call.env.sketch = "missing") =>
         (call.result = ModuleErrorCritical /\ Unchanged(call))

Processed == run.result # "none"
LastContainer == containers[Len(containers)]
LastFile == files[Len(files)]
HasRows == run.data_frame # None /\ run.data_frame[1].rows >= 1
NoRows == run.data_frame # None /\ run.data_frame[1].rows = 0

\* C4: a Process call that completes without error after a successful SetUp
\* stores exactly one artifact when the result table has at least one row, and
\* none, creating no temporary file, when it has no rows; a table without rows
\* never makes Process fail.
C4_OneArtifactOrNone ==
  /\ (Processed /\ run.result = Ok /\ HasRows) =>
       Len(containers) = run.containers0 + 1
  /\ (Processed /\ NoRows) =>
       /\ run.result = Ok
       /\ Len(containers) = run.containers0
       /\ Len(files) = run.files0

C4_Witness ==
  /\ Processed /\ run.result = Ok /\ NoRows
  /\ run.data_frame[1].columns # {}
  /\ call.args.output_format = "csv"
  /\ containers = <<>> /\ files = <<>>

\* C5: for a result with rows the artifact depends on the output format
\* alone: 'pandas' stores a table container and creates no file; csv, json and
\* jsonl each create one temporary file with that suffix and store a file
\* container with that file's path and no table; no temporary file is ever
\* deleted.
C5_ArtifactByFormat ==
  /\ (Processed /\ run.result = Ok /\ HasRows) =>
       IF call.args.output_format = "pandas"
         THEN /\ Len(containers) = run.containers0 + 1
              /\ LastContainer.type = "DataFrame"
              /\ LastContainer.data_frame # None
              /\ Len(files) = run.files0
         ELSE /\ call.args.output_format \in {"csv", "json", "jsonl"}
              /\ Len(files) = run.files0 + 1
              /\ LastFile.suffix = <<".", call.args.output_format>>
              /\ Len(containers) = run.containers0 + 1
              /\ LastContainer.type = "File"
              /\ LastContainer.path = LastFile.path
              /\ LastContainer.data_frame = None
  /\ \A i \in 1..Len(files) : files[i].exists

C5_Witness ==
  /\ Processed /\ run.result = Ok /\ HasRows
  /\ call.args.output_format = "jsonl"
  /\ call.args.search_name # None
  /\ Len(files) = 1 /\ LastFile.exists /\ LastContainer.type = "File"

\* The columns of the table that was output, wherever it went.
OutputColumns ==
  IF LastContainer.type = "DataFrame"
    THEN LastContainer.data_frame[1].columns
    ELSE LastFile.content.data_frame.columns

FiveInternal == {"__ts_timeline_id", "_id", "_index", "_source", "_type"}

\* C8: for a result with rows, the output's columns are the input's columns
\* without the five internal columns when inclusion is not requested (whatever
\* subset of them the input has, Process does not fail, and dropping again
\* changes nothing), and the input's columns when it is requested.
C8_InternalColumns ==
  (Processed /\ HasRows) =>
    /\ run.result = Ok
    /\ Len(containers) = run.containers0 + 1
    /\ IF call.args.include_internal_columns
         THEN OutputColumns = run.data_frame[1].columns
         ELSE /\ OutputColumns = run.data_frame[1].columns \ FiveInternal
              /\ Shape(self, Frame(OutputColumns, 1)) =
                   [result |-> Ok, data_frame |-> Frame(OutputColumns, 1)]

C8_Witness ==
  /\ Processed /\ HasRows /\ run.result = Ok
  /\ ~call.args.include_internal_columns
  /\ run.data_frame[1].columns = {"_id", "_source", "message"}
  /\ OutputColumns = {"message"}

\* --------------------------------------------------------------- labels
\* The entries of a comma-separated string, read off the separator positions.
Commas(s) == {i \in 1..Len(s) : s[i] = ","}
EntryCount(s) == Cardinality(Commas(s)) + 1
Boundary(s, k) ==
  IF k = 0 THEN 0
  ELSE IF k > Cardinality(Commas(s)) THEN Len(s) + 1
  ELSE CHOOSE i \in Commas(s) : Cardinality({j \in Commas(s) : j <= i}) = k
EntryOf(s, k) == SubSeq(s, Boundary(s, k - 1) + 1, Boundary(s, k) - 1)
Trimmed(e) ==
  LET nb == {i \in 1..Len(e) : e[i] # " "}
  IN IF nb = {} THEN <<>>
     ELSE SubSeq(e, CHOOSE i \in nb : \A j \in nb : i <= j,
                    CHOOSE i \in nb : \A j \in nb : j <= i)
IsLabelChip(c) == c.type = "label"
LabelChipsOf(q) == SelectSeq(q.chips, IsLabelChip)

\* C7: for a label list passed to SetUp, the query Process builds carries one
\* label restriction per entry of the list, in list order: the built-in star
\* or comment filter for an entry that, trimmed, is "star" or "comment", and a
\* literal restriction on the trimmed entry otherwise.
C7_LabelChips ==
  (run.query # None /\ TruthyTokens(call.args.labels)) =>
    LET s == call.args.labels[1]
        chips == LabelChipsOf(run.query[1])
    IN /\ Len(chips) = EntryCount(s)
       /\ \A k \in 1..EntryCount(s) :
            LET v == Trimmed(EntryOf(s, k))
            IN IF v = <<"star">> THEN chips[k].builtin = "star"
               ELSE IF v = <<"comment">> THEN chips[k].builtin = "comment"
               ELSE chips[k].builtin = "" /\ chips[k].label = v

C7_Witness ==
  /\ run.query # None
  /\ call.args.labels = Some(<<" ", "star", ",", ",", "comment", " ">>)
  /\ Len(LabelChipsOf(run.query[1])) = 3
  /\ LabelChipsOf(run.query[1])[1].builtin = "star"
  /\ LabelChipsOf(run.query[1])[2].label = <<>>
  /\ LabelChipsOf(run.query[1])[3].builtin = "comment"

\* C10 (as claimed): after a successful SetUp the stored labels, indices,
\* search name and description are those of that call's arguments, empty when
\* it supplied none, and the query Process builds carries no other label or
\* index restriction.
C10_NoLeftovers ==
  call.result = Ok =>
    LET labels == IF TruthyTokens(call.args.labels)
                    THEN ParseLabels(call.args.labels[1]) ELSE <<>>
        indices == IF TruthyTokens(call.args.indices)
                     THEN ParseIndices(call.args.indices[1]) ELSE <<>>
    IN /\ self.labels = labels
       /\ self.indices = indices
       /\ self.search_name =
            (IF TruthyStr(call.args.search_name) THEN call.args.search_name[1] ELSE "")
       /\ self.search_description =
            (IF TruthyStr(call.args.search_description)
               THEN call.args.search_description[1] ELSE "")
       /\ run.query # None =>
            /\ Len(LabelChipsOf(run.query[1])) = Len(labels)
            /\ run.query[1].indices = (IF indices = <<>> THEN DefaultIndices ELSE indices)

====
